---- MODULE Spec2Model ----
(***************************************************************************)
(* fonty telemetry ETL (src/src/app.ts).                                   *)
(*                                                                         *)
(* One handler (processMessage) runs per delivered Pub/Sub message on the  *)
(* single-threaded Node.js event loop.  A handler runs synchronously up to *)
(* an await, so every action below is one run-to-completion segment of the *)
(* handler: from the delivery to the first await, from the settling of the *)
(* awaited promise to the next await, and so on.  The only state shared by *)
(* handlers is the module-level _sourceCache.                              *)
(***************************************************************************)
EXTENDS Integers, Sequences, FiniteSets, TLC

\* Number of message deliveries (one handler invocation each).
NumMsgs == 2

(***************************************************************************)
(* JavaScript values.  Every value is a record of the same shape so that   *)
(* values of different JS types can be compared.                           *)
(***************************************************************************)
JNull == [t |-> "null", n |-> 0, s |-> ""]

JUndefined == [t |-> "undefined", n |-> 0, s |-> ""]

JStr(str) == [t |-> "string", n |-> 0, s |-> str]

JNum(num) == [t |-> "number", n |-> num, s |-> ""]

\* A nested object value inside a payload (opaque to the pipeline).
JObject == [t |-> "object", n |-> 0, s |-> ""]

Digit(d) ==
  CASE d = 0 -> "0" [] d = 1 -> "1" [] d = 2 -> "2" [] d = 3 -> "3"
    [] d = 4 -> "4" [] d = 5 -> "5" [] d = 6 -> "6" [] d = 7 -> "7"
    [] d = 8 -> "8" [] d = 9 -> "9"

RECURSIVE NatToString(_)
NatToString(num) ==
  IF num < 10 THEN Digit(num)
  ELSE NatToString(num \div 10) \o Digit(num % 10)

\* String(v) and template-literal interpolation of JavaScript.
StringOf(v) ==
  CASE v.t = "string"    -> v.s
    [] v.t = "number"    -> IF v.n < 0 THEN "-" \o NatToString(0 - v.n)
                                       ELSE NatToString(v.n)
    [] v.t = "null"      -> "null"
    [] v.t = "undefined" -> "undefined"
    [] v.t = "object"    -> "[object Object]"

(***************************************************************************)
(* The payload `data.data`: absent (undefined), null, or a JSON object     *)
(* whose properties are kept in insertion order.                           *)
(***************************************************************************)
Prop(k, v) == [key |-> k, val |-> v]

PUndefined == [t |-> "undefined", props |-> <<>>]

PNull == [t |-> "null", props |-> <<>>]

PObject(props) == [t |-> "object", props |-> props]

\* `k in o` for an object built by JSON.parse.
HasKey(o, k) == \E i \in 1..Len(o.props) : o.props[i].key = k

\* `o[k]`
GetProp(o, k) ==
  IF HasKey(o, k)
  THEN o.props[CHOOSE i \in 1..Len(o.props) : o.props[i].key = k].val
  ELSE JUndefined

\* `o[k] = v`: an existing key keeps its position, a new key goes last.
SetProp(o, k, v) ==
  IF HasKey(o, k)
  THEN [o EXCEPT !.props = [i \in 1..Len(o.props) |->
                              IF o.props[i].key = k THEN Prop(k, v)
                                                    ELSE o.props[i]]]
  ELSE [o EXCEPT !.props = Append(o.props, Prop(k, v))]

(***************************************************************************)
(* Collaborators' data.                                                    *)
(***************************************************************************)
URLs == {"http://x/y", "http://x/z"}

Names == {"Foo Foundry", "Bar Type"}

\* geoip.lookup: <<>> stands for null (private, malformed or unmapped IP).
GeoLookup(ip) ==
  CASE ip = "8.8.8.8"   -> <<[country |-> "US", region |-> "CA", ll |-> <<37, -122>>]>>
    [] ip = "46.99.0.1" -> <<[country |-> "XK", region |-> "", ll |-> <<42, 21>>]>>
    [] OTHER            -> <<>>

IPs == {"8.8.8.8", "46.99.0.1", "10.0.0.1"}

\* The ISO 3166-1 table: country code -> entry.
Iso3166 == [c \in {"US"} |-> [name |-> "United States of America"]]

(***************************************************************************)
(* Messages.                                                               *)
(***************************************************************************)
IncomingTelemetryEvent(ip, payload) ==
  [ip_address       |-> JStr(ip),
   server_timestamp |-> JNum(1500000000),
   timestamp        |-> JStr("2017-07-14T02:40:00Z"),
   status_code      |-> JNum(0),
   event_type       |-> JStr("FONT_INSTALL"),
   execution_time   |-> JNum(3),
   fonty_version    |-> JStr("0.1.3"),
   os_family        |-> JStr("Darwin"),
   os_version       |-> JStr("16.7.0"),
   python_version   |-> JStr("3.6.1"),
   data             |-> payload]

\* message.data: bytes that are either not JSON or the JSON text of an event.
MalformedBody == [malformed |-> TRUE, json |-> <<>>]

JsonBody(ev) == [malformed |-> FALSE, json |-> <<ev>>]

Payloads ==
  { PUndefined,
    PNull,
    PObject(<<Prop("a", JNum(1)), Prop("b", JNull)>>),
    PObject(<<Prop("a", JNum(1)), Prop("source_url", JStr("http://x/y"))>>),
    PObject(<<Prop("source_url", JStr("http://x/z"))>>) }

Bodies ==
  {MalformedBody} \cup
  { JsonBody(IncomingTelemetryEvent(ip, p)) : ip \in IPs, p \in Payloads }

(***************************************************************************)
(* Exceptions: the error and the source line that throws it.               *)
(***************************************************************************)
NoError == [error |-> "", line |-> 0]

Thrown(name, ln) == [error |-> name, line |-> ln]

\* A parse that falls back to an empty event instead of throwing.
JSONParse_Lenient(body) ==
  IF body.malformed
  THEN [threw |-> NoError, val |-> <<IncomingTelemetryEvent("8.8.8.8", PNull)>>]
  ELSE [threw |-> NoError, val |-> body.json]

\* JSON.parse(message.data.toString('utf8'))
JSONParse(body) ==
  IF body.malformed
  THEN [threw |-> Thrown("SyntaxError", 99), val |-> <<>>]
  ELSE [threw |-> NoError, val |-> body.json]

(***************************************************************************)
(* Flattening and assembly of the processed record.                        *)
(***************************************************************************)
\* A flattening that drops the null check and stringifies every value.
Flatten_StringifyNull(payload) ==
  IF payload.t # "null"
  THEN [i \in 1..Len(payload.props) |->
          [key   |-> payload.props[i].key,
           value |-> JStr(StringOf(payload.props[i].val))]]
  ELSE <<>>

Flatten(payload) ==
  IF payload.t # "null"
  THEN [i \in 1..Len(payload.props) |->
          [key   |-> payload.props[i].key,
           value |-> IF payload.props[i].val = JNull
                     THEN JNull
                     ELSE JStr(StringOf(payload.props[i].val))]]
  ELSE <<>>

\* `x || null` for a string-or-undefined x
OrNull(v) == IF v.t = "undefined" \/ (v.t = "string" /\ v.s = "") THEN JNull ELSE v

\* A record built by copying the event, so that ip_address stays in it.
Craft_WithIp(ev, geo, eventData) ==
  IF geo = <<>>
  THEN [threw |-> Thrown("TypeError", 122), rec |-> <<>>]
  ELSE IF geo[1].country \notin DOMAIN Iso3166
  THEN [threw |-> Thrown("TypeError", 123), rec |-> <<>>]
  ELSE [threw |-> NoError,
        rec |-> <<[ip_address       |-> ev.ip_address,
                   server_timestamp |-> ev.server_timestamp,
                   timestamp        |-> ev.timestamp,
                   geo_country_code |-> JStr(geo[1].country),
                   geo_country      |-> OrNull(JStr(Iso3166[geo[1].country].name)),
                   geo_region       |-> JStr(geo[1].region),
                   geo_coords       |-> JStr(StringOf(JNum(geo[1].ll[1])) \o ", "
                                             \o StringOf(JNum(geo[1].ll[2]))),
                   status_code      |-> ev.status_code,
                   event_type       |-> ev.event_type,
                   execution_time   |-> ev.execution_time,
                   fonty_version    |-> ev.fonty_version,
                   os_family        |-> ev.os_family,
                   os_version       |-> ev.os_version,
                   python_version   |-> ev.python_version,
                   event_data       |-> eventData]>>]

Craft(ev, geo, eventData) ==
  IF geo = <<>>
  THEN [threw |-> Thrown("TypeError", 122), rec |-> <<>>]
  ELSE IF geo[1].country \notin DOMAIN Iso3166
  THEN [threw |-> Thrown("TypeError", 123), rec |-> <<>>]
  ELSE [threw |-> NoError,
        rec |-> <<[server_timestamp |-> ev.server_timestamp,
                   timestamp        |-> ev.timestamp,
                   geo_country_code |-> JStr(geo[1].country),
                   geo_country      |-> OrNull(JStr(Iso3166[geo[1].country].name)),
                   geo_region       |-> JStr(geo[1].region),
                   geo_coords       |-> JStr(StringOf(JNum(geo[1].ll[1])) \o ", "
                                             \o StringOf(JNum(geo[1].ll[2]))),
                   status_code      |-> ev.status_code,
                   event_type       |-> ev.event_type,
                   execution_time   |-> ev.execution_time,
                   fonty_version    |-> ev.fonty_version,
                   os_family        |-> ev.os_family,
                   os_version       |-> ev.os_version,
                   python_version   |-> ev.python_version,
                   event_data       |-> eventData]>>]

(***************************************************************************)
(* resolveFontSource.                                                      *)
(***************************************************************************)
\* Outcomes of axios.get(sourceUrl): a rejection (network error, non-2xx
\* status), or a response whose body is JSON null, an object without `name`,
\* or an object with a `name`.
Rejected == [rejected |-> TRUE, data |-> "", name |-> JUndefined]

NullBody == [rejected |-> FALSE, data |-> "null", name |-> JUndefined]

NamelessBody == [rejected |-> FALSE, data |-> "object", name |-> JUndefined]

NamedBody(nm) == [rejected |-> FALSE, data |-> "object", name |-> JStr(nm)]

Responses == {Rejected, NullBody, NamelessBody} \cup {NamedBody(nm) : nm \in Names}

\* A lookup that never hits.
Cached_Never(c, key) == FALSE

\* `sourceUrl in _sourceCache`
Cached(c, key) == key \in DOMAIN c

\* `_sourceCache[sourceUrl] = v`
Store(c, key, v) == [k \in DOMAIN c \cup {key} |-> IF k = key THEN v ELSE c[k]]

\* resolveFontSource without its try/catch: a rejected fetch rejects the call.
OnResponse_NoCatch(c, key, res) ==
  IF res.rejected \/ res.data = "null"
  THEN [cache |-> c, ret |-> JNull, threw |-> Thrown("Error", 159)]
  ELSE [cache |-> Store(c, key, res.name), ret |-> res.name, threw |-> NoError]

\* The continuation of resolveFontSource after `await axios.get(sourceUrl)`:
\* the new cache and the value the call resolves to.
\* `threw` is what the call rejects with; the bare catch leaves nothing to reject with.
OnResponse(c, key, res) ==
  IF res.rejected \/ res.data = "null"
  THEN [cache |-> c, ret |-> JNull, threw |-> NoError]
  ELSE [cache |-> Store(c, key, res.name), ret |-> res.name, threw |-> NoError]

(***************************************************************************)
(* The sink's insert.                                                      *)
(***************************************************************************)
\* The insert resolves, or rejects with an error that may carry an `errors`
\* list (a partial-failure error) or not (for instance a network error).
Inserted == [rejected |-> FALSE, hasErrors |-> FALSE, errors |-> <<>>]

PartialFailure == [rejected |-> TRUE, hasErrors |-> TRUE, errors |-> <<"invalid">>]

PlainError == [rejected |-> TRUE, hasErrors |-> FALSE, errors |-> <<>>]

InsertOutcomes == {Inserted, PartialFailure, PlainError}

\* console.log(err.errors[0].error) throws when err.errors is undefined or empty.
CatchThrows(err) == ~err.hasErrors \/ Len(err.errors) = 0

(***************************************************************************)
(* State.                                                                  *)
(***************************************************************************)
VARIABLES
  pc,         \* handler position: idle, fetching, resuming, inserting, acked, threw
  msg,        \* msg[m]: <<body>> of the delivered message
  data,       \* data[m]: <<event>> once parsed (data.data is mutated in place)
  fetched,    \* fetched[m]: <<response>> axios.get settled with
  resolved,   \* resolved[m]: <<value>> resolveFontSource resolved to
  issued,     \* issued[m]: number of axios.get calls made by handler m
  submitted,  \* submitted[m]: records handler m passed to insert, in order
  settled,    \* settled[m]: <<outcome>> of the insert once it settled
  acks,       \* acks[m]: number of message.ack() calls
  nacks,      \* nacks[m]: number of message.nack() calls
  thrown,     \* thrown[m]: the exception that rejected the handler's promise
  cache       \* _sourceCache

vars == <<pc, msg, data, fetched, resolved, issued, submitted, settled, acks, nacks, thrown, cache>>

Msgs == 1..NumMsgs

Init ==
  /\ pc        = [m \in Msgs |-> "idle"]
  /\ msg       = [m \in Msgs |-> <<>>]
  /\ data      = [m \in Msgs |-> <<>>]
  /\ fetched   = [m \in Msgs |-> <<>>]
  /\ resolved  = [m \in Msgs |-> <<>>]
  /\ issued    = [m \in Msgs |-> 0]
  /\ submitted = [m \in Msgs |-> <<>>]
  /\ settled   = [m \in Msgs |-> <<>>]
  /\ acks      = [m \in Msgs |-> 0]
  /\ nacks     = [m \in Msgs |-> 0]
  /\ thrown    = [m \in Msgs |-> NoError]
  /\ cache     = [k \in {} |-> JNull]

\* The handler's promise rejects with exception e.
Throw(m, e) ==
  /\ pc' = [pc EXCEPT ![m] = "threw"]
  /\ thrown' = [thrown EXCEPT ![m] = e]

\* A handler that calls insert a second time with the same record.
Store2Sink_Twice(m, ev) ==
  LET crafted == Craft(ev, GeoLookup(ev.ip_address.s), Flatten(ev.data))
  IN  IF crafted.threw # NoError
      THEN /\ Throw(m, crafted.threw)
           /\ UNCHANGED submitted
      ELSE /\ pc' = [pc EXCEPT ![m] = "inserting"]
           /\ submitted' = [submitted EXCEPT ![m] = Append(Append(@, crafted.rec[1]), crafted.rec[1])]
           /\ UNCHANGED thrown

\* Lines 109-141: flatten, craft the record and call insert.
Store2Sink(m, ev) ==
  LET crafted == Craft(ev, GeoLookup(ev.ip_address.s), Flatten(ev.data))
  IN  IF crafted.threw # NoError
      THEN /\ Throw(m, crafted.threw)
           /\ UNCHANGED submitted
      ELSE /\ pc' = [pc EXCEPT ![m] = "inserting"]
           /\ submitted' = [submitted EXCEPT ![m] = Append(@, crafted.rec[1])]
           /\ UNCHANGED thrown

\* Line 105 throws: `data.data !== null` lets undefined through, and the `in`
\* operator throws a TypeError on it.
InThrows(payload) == payload.t # "null" /\ payload.t = "undefined"

\* A condition that resolves the source of every non-null payload.
HasSourceUrl_Always(payload) == payload.t # "null"

\* Line 105: `data.data !== null && 'source_url' in data.data`.
HasSourceUrl(payload) == payload.t # "null" /\ HasKey(payload, "source_url")

\* A handler that drops the resolved value instead of storing it in the payload.
Inject_Skip(ev, v) == ev

\* Line 106, after the await: data.data['source_name'] = <resolved value>.
Inject(ev, v) == [ev EXCEPT !.data = SetProp(ev.data, "source_name", v)]

\* subscription.on('message', ...): processMessage from its start to its
\* first await, or to its end when it throws before.
Receive(m, body) ==
  /\ pc[m] = "idle"
  /\ msg' = [msg EXCEPT ![m] = <<body>>]
  /\ UNCHANGED <<fetched, settled, acks, nacks, cache>>
  /\ LET parsed == JSONParse(body)
     IN  IF parsed.threw # NoError
         THEN /\ Throw(m, parsed.threw)
              /\ UNCHANGED <<data, resolved, issued, submitted>>
         ELSE
           LET ev == parsed.val[1]
           IN  /\ data' = [data EXCEPT ![m] = <<ev>>]
               /\ IF InThrows(ev.data)
                  THEN Throw(m, Thrown("TypeError", 105))
                       /\ UNCHANGED <<resolved, issued, submitted>>
                  ELSE IF ~HasSourceUrl(ev.data)
                  THEN Store2Sink(m, ev) /\ UNCHANGED <<resolved, issued>>
                  ELSE
                    LET key == StringOf(GetProp(ev.data, "source_url"))
                    IN  IF Cached(cache, key)
                        THEN /\ pc' = [pc EXCEPT ![m] = "resuming"]
                             /\ resolved' = [resolved EXCEPT ![m] = <<cache[key]>>]
                             /\ UNCHANGED <<issued, submitted, thrown>>
                        ELSE /\ pc' = [pc EXCEPT ![m] = "fetching"]
                             /\ issued' = [issued EXCEPT ![m] = @ + 1]
                             /\ UNCHANGED <<resolved, submitted, thrown>>

\* The awaited resolveFontSource promise was already resolved from the cache:
\* processMessage resumes at line 106.
Resume(m) ==
  /\ pc[m] = "resuming"
  /\ LET ev == Inject(data[m][1], resolved[m][1])
     IN  /\ data' = [data EXCEPT ![m] = <<ev>>]
         /\ Store2Sink(m, ev)
  /\ UNCHANGED <<msg, fetched, resolved, issued, settled, acks, nacks, cache>>

\* axios.get settles with res: resolveFontSource finishes (lines 160-164) and
\* processMessage resumes at line 106.
FetchSettle(m, res) ==
  /\ pc[m] = "fetching"
  /\ LET key == StringOf(GetProp(data[m][1].data, "source_url"))
         out == OnResponse(cache, key, res)
         ev  == Inject(data[m][1], out.ret)
     IN  /\ fetched' = [fetched EXCEPT ![m] = <<res>>]
         /\ cache' = out.cache
         /\ IF out.threw # NoError
            THEN /\ Throw(m, out.threw)
                 /\ UNCHANGED <<resolved, data, submitted>>
            ELSE /\ resolved' = [resolved EXCEPT ![m] = <<out.ret>>]
                 /\ data' = [data EXCEPT ![m] = <<ev>>]
                 /\ Store2Sink(m, ev)
  /\ UNCHANGED <<msg, issued, settled, acks, nacks>>

\* A handler that negatively acknowledges the message when the insert rejects.
AfterInsert_NackOnReject(o) ==
  IF o.rejected
  THEN [threw |-> NoError, ack |-> 0, nack |-> 1]
  ELSE [threw |-> NoError, ack |-> 1, nack |-> 0]

\* What lines 142-147 do once the insert has settled with outcome o:
\* the exception thrown (if any) and the calls made on the message.
AfterInsert(o) ==
  IF o.rejected /\ CatchThrows(o)
  THEN [threw |-> Thrown("TypeError", 143), ack |-> 0, nack |-> 0]
  ELSE [threw |-> NoError, ack |-> 1, nack |-> 0]

\* The insert settles: processMessage resumes at line 141 and runs to its end.
InsertSettle(m, o) ==
  /\ pc[m] = "inserting"
  /\ settled' = [settled EXCEPT ![m] = <<o>>]
  /\ LET fin == AfterInsert(o)
     IN  /\ acks' = [acks EXCEPT ![m] = @ + fin.ack]
         /\ nacks' = [nacks EXCEPT ![m] = @ + fin.nack]
         /\ IF fin.threw # NoError
            THEN Throw(m, fin.threw)
            ELSE pc' = [pc EXCEPT ![m] = "acked"] /\ UNCHANGED thrown
  /\ UNCHANGED <<msg, data, fetched, resolved, issued, submitted, cache>>

Next ==
  \/ \E m \in DOMAIN pc : \E body \in Bodies : Receive(m, body)
  \/ \E m \in DOMAIN pc : Resume(m)
  \/ \E m \in DOMAIN pc : \E res \in Responses : FetchSettle(m, res)
  \/ \E m \in DOMAIN pc : \E o \in InsertOutcomes : InsertSettle(m, o)

Spec == Init /\ [][Next]_vars

\* The scheduling the runtime guarantees: a resolved promise's continuation
\* runs, and the sink's insert settles.  Nothing makes axios.get settle: the
\* call sets no timeout and the remote may never answer.
FairSpec ==
  /\ Spec
  /\ \A m \in Msgs : WF_vars(Resume(m))
  /\ \A m \in Msgs : WF_vars(\E o \in InsertOutcomes : InsertSettle(m, o))

(***************************************************************************)
(* One handler over payloads of every shape: all objects of at most        *)
(* MaxKeys properties with distinct keys.                                  *)
(***************************************************************************)
MaxKeys == 2

FlatProps ==
  { Prop("a", JNum(1)), Prop("a", JNum(-12)), Prop("a", JNull),
    Prop("b", JStr("null")), Prop("b", JObject),
    Prop("source_url", JStr("http://x/y")),
    Prop("source_name", JStr("old")) }

FlatObjects ==
  { PObject(props) :
      props \in { q \in UNION { [1..n -> FlatProps] : n \in 0..MaxKeys } :
                    \A i, j \in 1..Len(q) : q[i].key = q[j].key => i = j } }

FlatBodies ==
  {MalformedBody} \cup
  { JsonBody(IncomingTelemetryEvent(ip, p)) :
      ip \in IPs, p \in {PUndefined, PNull} \cup FlatObjects }

\* The state after construction with handlers H.
Start(H) ==
  /\ pc        = [m \in H |-> "idle"]
  /\ msg       = [m \in H |-> <<>>]
  /\ data      = [m \in H |-> <<>>]
  /\ fetched   = [m \in H |-> <<>>]
  /\ resolved  = [m \in H |-> <<>>]
  /\ issued    = [m \in H |-> 0]
  /\ submitted = [m \in H |-> <<>>]
  /\ settled   = [m \in H |-> <<>>]
  /\ acks      = [m \in H |-> 0]
  /\ nacks     = [m \in H |-> 0]
  /\ thrown    = [m \in H |-> NoError]
  /\ cache     = [k \in {} |-> JNull]

FlatInit == Start({1})

\* A single handler never finds its URL in the cache, so it never resumes
\* from a cache hit.
FlatNext ==
  \/ \E m \in DOMAIN pc : \E body \in FlatBodies : Receive(m, body)
  \/ \E m \in DOMAIN pc : \E res \in Responses : FetchSettle(m, res)
  \/ \E m \in DOMAIN pc : \E o \in InsertOutcomes : InsertSettle(m, o)

FlatSpec == FlatInit /\ [][FlatNext]_vars

(***************************************************************************)
(* NumRacers handlers that all resolve a source URL.                       *)
(***************************************************************************)
NumRacers == 3

RaceUrl == "http://x/y"

RaceBodies ==
  { JsonBody(IncomingTelemetryEvent("8.8.8.8", PObject(<<Prop("source_url", JStr(RaceUrl))>>))) }

RaceInit == Start(1..NumRacers)

RaceNext ==
  \/ \E m \in DOMAIN pc : \E body \in RaceBodies : Receive(m, body)
  \/ \E m \in DOMAIN pc : Resume(m)
  \/ \E m \in DOMAIN pc : \E res \in Responses : FetchSettle(m, res)
  \/ \E m \in DOMAIN pc : \E o \in InsertOutcomes : InsertSettle(m, o)

RaceSpec == RaceInit /\ [][RaceNext]_vars

(***************************************************************************)
(* Properties.                                                             *)
(***************************************************************************)
\* The first line of the insert call.
InsertLine == 138

Parsed(m) == data[m] # <<>>

Geo(m) == GeoLookup(data[m][1].ip_address.s)

SourceKey(m) == StringOf(GetProp(data[m][1].data, "source_url"))

HasEntry(rec, k, v) ==
  \E i \in 1..Len(rec.event_data) : rec.event_data[i] = [key |-> k, value |-> v]

\* C1: whenever the insert of a message rejected, with whatever rejection
\* value, the handler has called ack() exactly once.
C1_AckDespiteRejection ==
  \A m \in DOMAIN pc :
    (settled[m] # <<>> /\ settled[m][1].rejected) => acks[m] = 1

\* C2: a message whose body is malformed makes the handler throw, and a
\* handler that threw before the insert call has called neither ack() nor
\* nack() and has submitted no record.
C2_AbortBeforeSubmit ==
  \A m \in DOMAIN pc :
    /\ msg[m] = <<MalformedBody>> => (pc[m] = "threw" /\ thrown[m].line < InsertLine)
    /\ (pc[m] = "threw" /\ thrown[m].line < InsertLine)
         => (acks[m] = 0 /\ nacks[m] = 0 /\ submitted[m] = <<>>)

C2_Witness ==
  \E m1, m2 \in DOMAIN pc :
    /\ msg[m1] = <<MalformedBody>> /\ pc[m1] = "threw"
    /\ Parsed(m2) /\ pc[m2] = "threw" /\ thrown[m2].line < InsertLine

\* C3: a handler whose event has an IP the geo database does not resolve never
\* throws, and every record it submits has the four geo fields null.
C3_UnknownGeoIsNull ==
  \A m \in DOMAIN pc :
    (Parsed(m) /\ data[m][1].data.t # "undefined" /\ Geo(m) = <<>>)
      => /\ thrown[m] = NoError
         /\ \A i \in 1..Len(submitted[m]) :
              /\ submitted[m][i].geo_country_code = JNull
              /\ submitted[m][i].geo_country = JNull
              /\ submitted[m][i].geo_region = JNull
              /\ submitted[m][i].geo_coords = JNull

\* C4: a handler whose event resolves to a country code without an entry in
\* the ISO table never throws, and every record it submits has geo_country
\* null and geo_country_code the code.
C4_UnlistedCountryIsNull ==
  \A m \in DOMAIN pc :
    (Parsed(m) /\ data[m][1].data.t # "undefined" /\ Geo(m) # <<>>
       /\ Geo(m)[1].country \notin DOMAIN Iso3166)
      => /\ thrown[m] = NoError
         /\ \A i \in 1..Len(submitted[m]) :
              /\ submitted[m][i].geo_country = JNull
              /\ submitted[m][i].geo_country_code = JStr(Geo(m)[1].country)

\* C5: every received message eventually reaches a terminal state (it is
\* acknowledged, or its handler has thrown), whatever the remote does.
C5_EventuallyTerminal ==
  \A m \in Msgs : (pc[m] # "idle") ~> (pc[m] \in {"acked", "threw"})

C7_NamelessBodyIsFailure ==
  /\ \A k \in DOMAIN cache : cache[k] # JUndefined
  /\ \A m \in DOMAIN pc :
       fetched[m] = <<NamelessBody>> =>
         /\ resolved[m] = <<JNull>>
         /\ \A i \in 1..Len(submitted[m]) :
              HasEntry(submitted[m][i], "source_name", JNull)

\* C8: a fetch that settles with anything but a body carrying a name (a
\* rejection or a malformed body) leaves the cache unchanged.
C8_FailuresNotCached ==
  [][\A m \in DOMAIN pc :
       (pc[m] = "fetching" /\ fetched'[m] # <<>>
          /\ fetched'[m][1] \notin {NamedBody(nm) : nm \in Names})
         => cache' = cache]_vars

C10_AckAtMostOnce ==
  \A m \in DOMAIN pc :
    /\ acks[m] <= 1
    /\ nacks[m] = 0
    /\ pc[m] = "acked" <=> acks[m] = 1

C10_Witness ==
  \E m1, m2 \in DOMAIN pc :
    /\ pc[m1] = "acked" /\ settled[m1] = <<PartialFailure>>
    /\ pc[m2] = "threw" /\ settled[m2] = <<PlainError>>

\* The payload of the event as it was delivered (before line 106 changes it).
Delivered(m) == msg[m] # <<>> /\ ~msg[m][1].malformed

Orig(m) == msg[m][1].json[1].data

LacksKey(payload, k) == \A j \in 1..Len(payload.props) : payload.props[j].key # k

\* The entry lines 112-115 are to make of one payload property.
EntryOf(prop) ==
  [key |-> prop.key,
   value |-> IF prop.val.t = "null" THEN JNull ELSE JStr(StringOf(prop.val))]

\* C11: a handler whose event has a null payload issues no fetch, has
\* submitted one record with an empty event_data, and is acknowledged or
\* waiting for its insert to settle.
C11_NullPayloadSubmitted ==
  \A m \in DOMAIN pc :
    (Delivered(m) /\ Orig(m) = PNull) =>
      /\ issued[m] = 0
      /\ Len(submitted[m]) = 1
      /\ submitted[m][1].event_data = <<>>
      /\ pc[m] \in {"inserting", "acked"}

\* C12: every record submitted for a payload object without source_url has
\* one event_data entry per payload property, in the payload's order, with the
\* property's key and the string conversion of its value (1 gives "1", -12
\* gives "-12", a nested object gives "[object Object]"), a null value giving
\* the null marker and only the string "null" giving the string "null".
C12_FlattenEntries ==
  \A m \in DOMAIN pc :
    (Delivered(m) /\ Orig(m).t = "object" /\ LacksKey(Orig(m), "source_url")) =>
      \A i \in 1..Len(submitted[m]) :
        LET ed    == submitted[m][i].event_data
            props == Orig(m).props
        IN  /\ Len(ed) = Len(props)
            /\ \A j \in 1..Len(props) :
                 /\ ed[j] = EntryOf(props[j])
                 /\ props[j].val = JNull => ed[j].value = JNull
                 /\ props[j].val = JNum(1) => ed[j].value = JStr("1")
                 /\ props[j].val = JNum(-12) => ed[j].value = JStr("-12")
                 /\ props[j].val = JObject => ed[j].value = JStr("[object Object]")
                 /\ ed[j].value = JStr("null") => props[j].val = JStr("null")

C12_Witness ==
  \E m \in DOMAIN pc :
    /\ pc[m] = "acked"
    /\ Orig(m).props = <<Prop("b", JStr("null")), Prop("a", JNull)>>
    /\ submitted[m][1].event_data =
         <<[key |-> "b", value |-> JStr("null")], [key |-> "a", value |-> JNull]>>

\* The value the source_name entry is to carry for a resolved value.
NameEntry(ret) ==
  [key |-> "source_name",
   value |-> IF ret = JNull THEN JNull ELSE JStr(StringOf(ret))]

\* C13 (as stated): every record submitted for a payload object with
\* source_url has one entry per delivered property plus one more, the
\* source_name entry carrying the resolved value.
C13_OneMoreEntry ==
  \A m \in DOMAIN pc :
    (Delivered(m) /\ Orig(m).t = "object" /\ ~LacksKey(Orig(m), "source_url")) =>
      \A i \in 1..Len(submitted[m]) :
        LET ed    == submitted[m][i].event_data
            props == Orig(m).props
        IN  /\ Len(ed) = Len(props) + 1
            /\ \A j \in 1..Len(props) : ed[j].key = props[j].key
            /\ ed[Len(ed)] = NameEntry(resolved[m][1])

\* C13 (amended): every record submitted for a payload object with source_url
\* carries the resolved value under source_name: as one more, last entry after
\* the entries of the delivered properties when the payload had no source_name
\* of its own, and otherwise in the place of the delivered source_name entry,
\* no entry being added.
C13_SourceNameSet ==
  \A m \in DOMAIN pc :
    (Delivered(m) /\ Orig(m).t = "object" /\ ~LacksKey(Orig(m), "source_url")) =>
      \A i \in 1..Len(submitted[m]) :
        LET ed    == submitted[m][i].event_data
            props == Orig(m).props
        IN  /\ resolved[m] # <<>>
            /\ IF LacksKey(Orig(m), "source_name")
               THEN /\ Len(ed) = Len(props) + 1
                    /\ \A j \in 1..Len(props) : ed[j] = EntryOf(props[j])
                    /\ ed[Len(ed)] = NameEntry(resolved[m][1])
               ELSE /\ Len(ed) = Len(props)
                    /\ \A j \in 1..Len(props) :
                         ed[j] = IF props[j].key = "source_name"
                                 THEN NameEntry(resolved[m][1])
                                 ELSE EntryOf(props[j])

C13_Witness ==
  \E m \in DOMAIN pc :
    /\ pc[m] = "acked"
    /\ Orig(m).props = <<Prop("source_name", JStr("old")), Prop("source_url", JStr("http://x/y"))>>
    /\ fetched[m] = <<NamedBody("Foo Foundry")>>
    /\ submitted[m][1].event_data =
         <<[key |-> "source_name", value |-> JStr("Foo Foundry")],
           [key |-> "source_url", value |-> JStr("http://x/y")]>>

RecordFields ==
  {"server_timestamp", "timestamp", "geo_country_code", "geo_country",
   "geo_region", "geo_coords", "status_code", "event_type", "execution_time",
   "fonty_version", "os_family", "os_version", "python_version", "event_data"}

\* C14: every submitted record has exactly the passthrough scalars, the four
\* geo fields and event_data as its fields (so no ip_address), every scalar is
\* a string, a number or null, and every event_data entry is a key with a
\* string or null value.
C14_FlatRecordWithoutIp ==
  \A m \in DOMAIN pc :
    \A i \in 1..Len(submitted[m]) :
      LET rec == submitted[m][i]
      IN  /\ DOMAIN rec = RecordFields
          /\ "ip_address" \notin DOMAIN rec
          /\ \A f \in RecordFields \ {"event_data"} :
               rec[f].t \in {"string", "number", "null"}
          /\ \A j \in 1..Len(rec.event_data) :
               /\ DOMAIN rec.event_data[j] = {"key", "value"}
               /\ rec.event_data[j].value.t \in {"string", "null"}

C14_Witness ==
  \E m \in DOMAIN pc :
    /\ pc[m] = "acked"
    /\ Orig(m).props = <<Prop("b", JObject), Prop("source_url", JStr("http://x/y"))>>
    /\ HasEntry(submitted[m][1], "b", JStr("[object Object]"))
    /\ data[m][1].ip_address = JStr("8.8.8.8")

\* C15: no step of a handler whose delivered payload is absent, null or an
\* object without source_url issues a fetch, receives a response or changes
\* the cache.
C15_NoFetchWithoutUrl ==
  [][\A m \in DOMAIN pc :
       (pc'[m] # pc[m] /\ msg'[m] # <<>> /\ ~msg'[m][1].malformed
          /\ LacksKey(msg'[m][1].json[1].data, "source_url"))
         => /\ cache' = cache
            /\ issued' = issued
            /\ fetched' = fetched
            /\ issued[m] = 0]_vars

C15_Witness ==
  \E m1, m2 \in DOMAIN pc :
    /\ pc[m1] = "acked" /\ Orig(m1).props = <<Prop("a", JNum(1)), Prop("b", JNull)>>
    /\ issued[m1] = 0
    /\ pc[m2] = "acked" /\ issued[m2] = 1
    /\ DOMAIN cache = {"http://x/y"}

\* C16: a handler calls insert at most once, only once its event is parsed
\* and before any ack; it calls ack() only in the step in which its one insert
\* settles; and no handler has acknowledged without a settled insert.
C16_InsertThenAck ==
  [][\A m \in DOMAIN pc :
       /\ Len(submitted'[m]) <= 1
       /\ submitted'[m] # submitted[m]
            => (pc[m] \in {"idle", "fetching", "resuming"} /\ data'[m] # <<>>
                  /\ acks[m] = 0 /\ settled[m] = <<>>)
       /\ acks'[m] # acks[m]
            => (pc[m] = "inserting" /\ Len(submitted[m]) = 1
                  /\ settled[m] = <<>> /\ settled'[m] # <<>>)
       /\ acks'[m] > 0 => (Len(submitted'[m]) = 1 /\ settled'[m] # <<>>)]_vars

C16_Witness ==
  \E m \in DOMAIN pc :
    /\ pc[m] = "acked" /\ acks[m] = 1
    /\ Len(submitted[m]) = 1 /\ settled[m] = <<Inserted>>
    /\ resolved[m] # <<>>

\* The handlers whose event asks for the source at URL u.
Resolvers(u) ==
  { m \in DOMAIN pc : Delivered(m) /\ Orig(m).t = "object"
                        /\ ~LacksKey(Orig(m), "source_url")
                        /\ StringOf(GetProp(Orig(m), "source_url")) = u }

RECURSIVE SumIssued(_)
SumIssued(H) ==
  IF H = {} THEN 0
  ELSE LET m == CHOOSE x \in H : TRUE IN issued[m] + SumIssued(H \ {m})

\* The number of axios.get calls made for URL u.
FetchesFor(u) == SumIssued(Resolvers(u))

\* C17 (as stated): as long as every fetch for u that has settled has
\* succeeded, at most two fetches have been issued for u.
C17_AtMostTwoFetches ==
  \A u \in URLs :
    (\A m \in Resolvers(u) :
       fetched[m] = <<>> \/ fetched[m][1] \in {NamedBody(nm) : nm \in Names})
      => FetchesFor(u) <= 2

\* C17 (amended): a handler issues at most one fetch, and issues it only when
\* it starts resolving a URL that is not in the cache at that moment (so the
\* fetches for u are bounded by the number of handlers resolving u, not by two).
C17_OneFetchPerUncachedResolve ==
  [][\A m \in DOMAIN pc :
       /\ issued'[m] <= 1
       /\ issued'[m] # issued[m]
            => /\ pc[m] = "idle"
               /\ StringOf(GetProp(data'[m][1].data, "source_url")) \notin DOMAIN cache]_vars

C17_Witness ==
  /\ FetchesFor(RaceUrl) = 3
  /\ \A m \in Resolvers(RaceUrl) :
       fetched[m] # <<>> /\ fetched[m][1] \in {NamedBody(nm) : nm \in Names}
  /\ \E m \in DOMAIN pc : pc[m] = "acked"

\* C18: an entry of the cache that maps a URL to a name is never removed and
\* never given another value.
C18_AppendOnly ==
  [][\A k \in DOMAIN cache :
       cache[k].t = "string" => (k \in DOMAIN cache' /\ cache'[k] = cache[k])]_vars

\* C19: a handler whose event has no payload field does not throw, has
\* submitted one record with an empty event_data, and is acknowledged or
\* waiting for its insert to settle.
C19_AbsentPayloadAsNull ==
  \A m \in DOMAIN pc :
    (Delivered(m) /\ Orig(m) = PUndefined) =>
      /\ thrown[m] = NoError
      /\ Len(submitted[m]) = 1
      /\ submitted[m][1].event_data = <<>>
      /\ pc[m] \in {"inserting", "acked"}
====
